---- MODULE Spec2Model ----
(***************************************************************************)
(* Model of rubble's GATT demo attribute providers (src/gatt/mod.rs):      *)
(* BatteryServiceAttrs and NordicUartAttrs, each a fixed array of          *)
(* attributes with for_attrs_in_range, is_grouping_attr and group_end.     *)
(*                                                                         *)
(* A run constructs one provider; every action is one complete call of one *)
(* trait method on it.  The state keeps the provider's array and a record  *)
(* of the last call: its arguments, the attributes handed to the callback, *)
(* and its outcome.                                                        *)
(***************************************************************************)
EXTENDS Integers, Sequences, FiniteSets, TLC

\* Handles 0..MaxHandle are enumerated, plus the largest u16 value.
MaxHandle == 8
\* The callback fails on its k-th invocation, k in 1..MaxFailAt (0: never).
MaxFailAt == 7

\* Handle::as_u16 yields a u16; arithmetic on it is modulo 2^16.
U16Modulus == 2^16
U16Max == U16Modulus - 1

Min(a, b) == IF a <= b THEN a ELSE b

----------------------------------------------------------------------------
(* Attribute types and table contents                                      *)

\* AttUuid::Uuid16(Uuid16(x)), kept as its two little-endian bytes.
Uuid16(x) == [kind |-> "Uuid16", bytes |-> <<x % 256, x \div 256>>]

\* AttUuid::Uuid128(Uuid::from_bytes(b)).
Uuid128(b) == [kind |-> "Uuid128", bytes |-> b]

\* The 16 bytes of the Nordic UART UUIDs; only byte 12 (n) differs.
NordicUuidBytes(n) ==
    << \H9e, \Hca, \Hdc, \H24, \H0e, \He5, \Ha9, \He0,
       \H93, \Hf3, \Ha3, \Hb5, n, \H00, \H40, \H6e >>

Attribute(t, h, v) == [att_type |-> t, handle |-> h, value |-> v]

\* A table whose third attribute repeats handle 2 (copy-paste slip).
BatteryServiceAttrs_new_dupHandle ==
    << Attribute(Uuid16(\H2800), 1, << \H0F, \H18 >>),
       Attribute(Uuid16(\H2803), 2, << \H02, \H03, \H00, \H19, \H2A >>),
       Attribute(Uuid16(\H2A19), 2, << 48 >>) >>

BatteryServiceAttrs_new ==
    << Attribute(Uuid16(\H2800), 1, << \H0F, \H18 >>),
       Attribute(Uuid16(\H2803), 2, << \H02, \H03, \H00, \H19, \H2A >>),
       Attribute(Uuid16(\H2A19), 3, << 48 >>) >>

NordicUartAttrs_new ==
    << Attribute(Uuid16(\H2800), 1, NordicUuidBytes(\H01)),
       Attribute(Uuid16(\H2803), 2,
                 << 12, \H04, \H00 >> \o NordicUuidBytes(\H02)),
       Attribute(Uuid16(\H2902), 3, << \H00, \H00 >>),
       Attribute(Uuid128(NordicUuidBytes(\H02)), 4, << 97, 98, 99 >>),
       Attribute(Uuid16(\H2803), 5,
                 << \H20, \H07, \H00 >> \o NordicUuidBytes(\H03)),
       Attribute(Uuid16(\H2902), 6, << \H00, \H00 >>),
       Attribute(Uuid128(NordicUuidBytes(\H03)), 7, << >>) >>

Battery == "BatteryServiceAttrs"
Nordic == "NordicUartAttrs"
Tables == {Battery, Nordic}

----------------------------------------------------------------------------
(* Inputs                                                                  *)

Handles == (0 .. MaxHandle) \cup {U16Max}

\* HandleRange: the constructor guarantees start <= end and nothing else.
HandleRanges == {r \in Handles \X Handles : r[1] <= r[2]}

\* Error values the callback may produce (opaque to this module).
Errors == {"Eof", "InvalidLength"}

\* The callbacks tried: failAt = 0 never fails; failAt = k > 0 returns
\* Err(err) from its k-th invocation and Ok from every other one.
Callbacks ==
    {[failAt |-> 0, err |-> "none"]}
    \cup {[failAt |-> k, err |-> e] : k \in 1 .. MaxFailAt, e \in Errors}

\* Arguments of is_grouping_attr: every stored type, and Secondary Service.
QueryUuids ==
    {Uuid16(\H2800), Uuid16(\H2801), Uuid16(\H2803), Uuid16(\H2902),
     Uuid16(\H2A19), Uuid128(NordicUuidBytes(\H02)),
     Uuid128(NordicUuidBytes(\H03))}

----------------------------------------------------------------------------
(* Outcomes                                                                *)

Ok == [kind |-> "Ok"]
Err(e) == [kind |-> "Err", err |-> e]
Panic == [kind |-> "Panic"]
Some(a) == [kind |-> "Some", attr |-> a]
None == [kind |-> "None"]
Bool(b) == [kind |-> "Bool", v |-> b]

----------------------------------------------------------------------------
(* for_attrs_in_range                                                      *)

\* u16 subtraction a - b.  On underflow the build decides: with overflow
\* checks (debug) it panics, without them (release) it wraps.
SubU16(a, b, overflowChecks) ==
    IF a >= b
    THEN [underflow |-> FALSE, panic |-> FALSE, v |-> a - b]
    ELSE [underflow |-> TRUE, panic |-> overflowChecks,
          v |-> (a - b + U16Modulus) % U16Modulus]

\* The index taken to be the handle itself (forgotten "- 1").
HandleToIndex_noOffset(handle, overflowChecks) ==
    [underflow |-> FALSE, panic |-> FALSE, v |-> handle]

\* usize::from(handle.as_u16() - 1): handles start at 1, not 0.
HandleToIndex(handle, overflowChecks) == SubU16(handle, 1, overflowChecks)

\* cmp::min(count - 1, end)
ClampEnd(count, end) == Min(count - 1, end)

\* The test for a start past the table is missing.
StartPastTable_never(start, count) == FALSE

\* start >= count
StartPastTable(start, count) == start >= count

\* The selected attributes are moved out of the table.
SliceInclusive_drain(self, lo, hi) ==
    IF hi >= Len(self) \/ lo > hi + 1
    THEN [panic |-> TRUE, self |-> self, attrs |-> << >>]
    ELSE [panic |-> FALSE,
          self |-> SubSeq(self, 1, lo) \o SubSeq(self, hi + 2, Len(self)),
          attrs |-> SubSeq(self, lo + 1, hi + 1)]

\* &self.attributes[lo..=hi] with 0-based lo, hi: panics when out of
\* bounds; otherwise borrows the elements and leaves the table as it is.
SliceInclusive(self, lo, hi) ==
    IF hi >= Len(self) \/ lo > hi + 1
    THEN [panic |-> TRUE, self |-> self, attrs |-> << >>]
    ELSE [panic |-> FALSE, self |-> self,
          attrs |-> SubSeq(self, lo + 1, hi + 1)]

\* The fresh Attribute { att_type, handle, value } handed to the callback.
AttrView(attr) ==
    Attribute(attr.att_type, attr.handle, attr.value)

\* The caller's callback: its n-th invocation fails with err iff n = failAt.
Callback(n, failAt, err) == IF n = failAt THEN Err(err) ELSE Ok

\* The callback's result is dropped instead of propagated.
Propagates_never(r) == FALSE

\* The ? operator: an Err result returns from the function at once.
Propagates(r) == r.kind = "Err"

\* for attr in attrs { f(self, view)?; } Ok(())
RECURSIVE ForLoop(_, _, _, _, _)
ForLoop(attrs, i, calls, failAt, err) ==
    IF i > Len(attrs)
    THEN [calls |-> calls, result |-> Ok]
    ELSE LET calls2 == Append(calls, AttrView(attrs[i]))
             r == Callback(Len(calls2), failAt, err)
         IN IF Propagates(r)
            THEN [calls |-> calls2, result |-> r]
            ELSE ForLoop(attrs, i + 1, calls2, failAt, err)

\* The whole method.  slice is << >> when the empty slice &[] is used and
\* <<lo, hi>> (0-based) when self.attributes is sliced.
ForAttrsInRange(self, range, failAt, err, overflowChecks) ==
    LET count == Len(self)
        start == HandleToIndex(range[1], overflowChecks)
        end == HandleToIndex(range[2], overflowChecks)
        underflow == start.underflow \/ (~start.panic /\ end.underflow)
    IN IF start.panic \/ end.panic
       THEN [self |-> self, calls |-> << >>, result |-> Panic,
             underflow |-> underflow, slice |-> << >>]
       ELSE IF StartPastTable(start.v, count)
       THEN [self |-> self, calls |-> << >>, result |-> Ok,
             underflow |-> underflow, slice |-> << >>]
       ELSE LET hi == ClampEnd(count, end.v)
                s == SliceInclusive(self, start.v, hi)
                l == ForLoop(s.attrs, 1, << >>, failAt, err)
            IN IF s.panic
               THEN [self |-> s.self, calls |-> << >>, result |-> Panic,
                     underflow |-> underflow, slice |-> <<start.v, hi>>]
               ELSE [self |-> s.self, calls |-> l.calls,
                     result |-> l.result,
                     underflow |-> underflow, slice |-> <<start.v, hi>>]

BatteryServiceAttrs_for_attrs_in_range(self, range, failAt, err, oc) ==
    ForAttrsInRange(self, range, failAt, err, oc)

NordicUartAttrs_for_attrs_in_range(self, range, failAt, err, oc) ==
    ForAttrsInRange(self, range, failAt, err, oc)

----------------------------------------------------------------------------
(* is_grouping_attr and group_end                                          *)

\* uuid == Uuid16(0x2800)
BatteryServiceAttrs_is_grouping_attr(uuid) == uuid = Uuid16(\H2800)

NordicUartAttrs_is_grouping_attr(uuid) == uuid = Uuid16(\H2800)

\* Some(&self.attributes[i]) with 0-based i: panics when out of bounds.
IndexAttr(self, i) == IF i < Len(self) THEN Some(self[i + 1]) ELSE Panic

\* Handle 2 mapped to the characteristic declaration itself.
BatteryServiceAttrs_group_end_wrongIndex(self, handle) ==
    CASE handle = 1 -> IndexAttr(self, 2)
      [] handle = 2 -> IndexAttr(self, 1)
      [] OTHER -> None

BatteryServiceAttrs_group_end(self, handle) ==
    CASE handle = 1 -> IndexAttr(self, 2)
      [] handle = 2 -> IndexAttr(self, 2)
      [] OTHER -> None

\* The service declaration's arm is missing.
NordicUartAttrs_group_end_noService(self, handle) ==
    CASE handle = 2 -> IndexAttr(self, 3)
      [] handle = 5 -> IndexAttr(self, 5)
      [] OTHER -> None

\* Every other handle falls through to the last attribute.
NordicUartAttrs_group_end_fallThrough(self, handle) ==
    CASE handle = 1 -> IndexAttr(self, 5)
      [] handle = 2 -> IndexAttr(self, 3)
      [] handle = 5 -> IndexAttr(self, 5)
      [] OTHER -> IndexAttr(self, 6)

NordicUartAttrs_group_end(self, handle) ==
    CASE handle = 1 -> IndexAttr(self, 5)
      [] handle = 2 -> IndexAttr(self, 3)
      [] handle = 5 -> IndexAttr(self, 5)
      [] OTHER -> None

----------------------------------------------------------------------------
(* State machine                                                           *)

VARIABLES
    provider,    \* which AttributeProvider implementation was constructed
    attributes,  \* its array of attributes (the struct's only field)
    lastCall,    \* the method last called, with its arguments
    calls,       \* the attributes the callback was invoked on, in order
    result,      \* what the last call returned (or Panic)
    underflow,   \* whether the last call's index arithmetic underflowed
    slice,       \* the 0-based bounds the last call sliced with, or << >>
    overflowChecks  \* build setting: integer overflow panics (else wraps)

vars == <<provider, attributes, lastCall, calls, result, underflow, slice,
          overflowChecks>>

\* The state after BatteryServiceAttrs::new() or NordicUartAttrs::new().
Init ==
    /\ provider \in Tables
    /\ attributes = IF provider = Battery THEN BatteryServiceAttrs_new
                                          ELSE NordicUartAttrs_new
    /\ lastCall = [name |-> "new"]
    /\ calls = << >>
    /\ result = Ok
    /\ underflow = FALSE
    /\ slice = << >>
    /\ overflowChecks \in BOOLEAN

\* A panic ends the program: nothing runs after it.
Running == result.kind # "Panic"

CallForAttrsInRange ==
    /\ Running
    /\ \E range \in HandleRanges, f \in Callbacks :
         \E r \in {IF provider = Battery
                   THEN BatteryServiceAttrs_for_attrs_in_range(
                            attributes, range, f.failAt, f.err,
                            overflowChecks)
                   ELSE NordicUartAttrs_for_attrs_in_range(
                            attributes, range, f.failAt, f.err,
                            overflowChecks)} :
            /\ attributes' = r.self
            /\ lastCall' = [name |-> "for_attrs_in_range",
                            start |-> range[1], end |-> range[2],
                            failAt |-> f.failAt, err |-> f.err]
            /\ calls' = r.calls
            /\ result' = r.result
            /\ underflow' = r.underflow
            /\ slice' = r.slice
            /\ UNCHANGED <<provider, overflowChecks>>

CallIsGroupingAttr ==
    /\ Running
    /\ \E uuid \in QueryUuids :
         /\ lastCall' = [name |-> "is_grouping_attr", uuid |-> uuid]
         /\ result' = Bool(IF provider = Battery
                           THEN BatteryServiceAttrs_is_grouping_attr(uuid)
                           ELSE NordicUartAttrs_is_grouping_attr(uuid))
         /\ calls' = << >>
         /\ underflow' = FALSE
         /\ slice' = << >>
         /\ UNCHANGED <<provider, attributes, overflowChecks>>

CallGroupEnd ==
    /\ Running
    /\ \E handle \in Handles :
         /\ lastCall' = [name |-> "group_end", handle |-> handle]
         /\ result' = IF provider = Battery
                      THEN BatteryServiceAttrs_group_end(attributes, handle)
                      ELSE NordicUartAttrs_group_end(attributes, handle)
         /\ calls' = << >>
         /\ underflow' = FALSE
         /\ slice' = << >>
         /\ UNCHANGED <<provider, attributes, overflowChecks>>

Next ==
    \/ CallForAttrsInRange
    \/ CallIsGroupingAttr
    \/ CallGroupEnd

Spec == Init /\ [][Next]_vars

----------------------------------------------------------------------------
(* Properties                                                              *)

ForAttrsCalled == lastCall.name = "for_attrs_in_range"
GroupEndCalled == lastCall.name = "group_end"

TableAttrs == {attributes[i] : i \in 1 .. Len(attributes)}

\* Whether handle h lies in the range of the last for_attrs_in_range call.
InRange(h) == lastCall.start <= h /\ h <= lastCall.end

\* The table's attributes whose handle lies in that range, in table order.
Matching == SelectSeq(attributes, LAMBDA a : InRange(a.handle))

\* C1: with a range 1 <= start <= end and a callback that never fails,
\* for_attrs_in_range invokes the callback on exactly the table's attributes
\* whose handle lies in [start, end], once each, in strictly increasing
\* handle order, and returns Ok (also when end is past the last handle).
C1_VisitsExactlyRange ==
    (ForAttrsCalled /\ lastCall.start >= 1 /\ lastCall.failAt = 0) =>
        /\ result = Ok
        /\ \A i \in 1 .. Len(calls) : calls[i] \in TableAttrs
        /\ \A a \in TableAttrs :
              Cardinality({i \in 1 .. Len(calls) : calls[i] = a})
                  = IF InRange(a.handle) THEN 1 ELSE 0
        /\ \A i \in 1 .. Len(calls) - 1 : calls[i].handle < calls[i + 1].handle

\* Nordic UART, range [3, 65535]: the five attributes 3..7 were visited.
C1_Witness ==
    /\ ForAttrsCalled /\ provider = Nordic
    /\ lastCall.start = 3 /\ lastCall.end = U16Max /\ lastCall.failAt = 0
    /\ Len(calls) = 5 /\ calls[1].handle = 3 /\ calls[5].handle = 7
    /\ result = Ok

\* C2: in the Nordic UART table group_end(1) and group_end(5) return the
\* attribute with handle 7, group_end(2) the attribute with handle 4, and
\* group_end(3) nothing.
C2_NordicGroupEnds ==
    (GroupEndCalled /\ provider = Nordic) =>
        /\ lastCall.handle \in {1, 5} =>
              result.kind = "Some" /\ result.attr.handle = 7
        /\ lastCall.handle = 2 =>
              result.kind = "Some" /\ result.attr.handle = 4
        /\ lastCall.handle = 3 => result = None

\* C3: when the range (start >= 1) matches at least k attributes and the
\* callback first fails on its k-th invocation, the callback was invoked
\* exactly k times, on the first k matching attributes in handle order, and
\* the call returns exactly the callback's error.
C3_StopsAtFirstFailure ==
    (ForAttrsCalled /\ lastCall.start >= 1 /\ lastCall.failAt >= 1
        /\ Len(Matching) >= lastCall.failAt) =>
        /\ Len(calls) = lastCall.failAt
        /\ calls = SubSeq(Matching, 1, lastCall.failAt)
        /\ result = Err(lastCall.err)

\* The callback failed on the third of seven matching attributes.
C3_Witness ==
    /\ ForAttrsCalled /\ provider = Nordic
    /\ lastCall.start = 1 /\ lastCall.end = 7 /\ lastCall.failAt = 3
    /\ Len(calls) = 3 /\ calls[3].handle = 3
    /\ result = Err("InvalidLength")

\* C4: when start is greater than the table's last handle, the callback is
\* never invoked and the call returns Ok, whatever the callback would do.
C4_StartPastTableIsEmptyOk ==
    (ForAttrsCalled /\ lastCall.start > Len(attributes)) =>
        calls = << >> /\ result = Ok

\* Battery, range [4, 8], with a callback that would fail at once.
C4_Witness ==
    /\ ForAttrsCalled /\ provider = Battery
    /\ lastCall.start = 4 /\ lastCall.end = 8 /\ lastCall.failAt = 1
    /\ calls = << >> /\ result = Ok

\* C5: for every range of 16-bit bounds with start <= end (start = 0
\* included) the handle-to-index computation never underflows, and a slice
\* that is taken has start index <= end index <= count - 1.
C5_NoUnderflowSliceInBounds ==
    ForAttrsCalled =>
        /\ ~underflow
        /\ slice # << >> =>
              slice[1] <= slice[2] /\ slice[2] <= Len(attributes) - 1

\* C6: in the Battery Service table group_end(1) and group_end(2) return the
\* attribute with handle 3, type 0x2A19 and the single value byte 48.
C6_BatteryGroupEnd ==
    (GroupEndCalled /\ provider = Battery /\ lastCall.handle \in {1, 2}) =>
        result = Some(Attribute(Uuid16(\H2A19), 3, << \H30 >>))

\* group_end(2) on the Battery Service table returned handle 3.
C6_Witness ==
    /\ GroupEndCalled /\ provider = Battery /\ lastCall.handle = 2
    /\ result.kind = "Some" /\ result.attr.handle = 3

\* The declared group starts of each table.
GroupStarts == IF provider = Battery THEN {1, 2} ELSE {1, 2, 5}

\* C7: group_end never panics (never indexes outside the table) and returns
\* nothing for every handle that is not a declared group start.
C7_GroupEndTotal ==
    GroupEndCalled =>
        /\ result.kind \in {"Some", "None"}
        /\ lastCall.handle \notin GroupStarts => result = None

\* group_end(65535) on the Nordic UART table returned nothing.
C7_Witness ==
    /\ GroupEndCalled /\ provider = Nordic /\ lastCall.handle = U16Max
    /\ result = None

\* C8: in every reachable state the attribute at 0-based index i has handle
\* i + 1 (1-based position = handle), and the table has 3 (Battery) or 7
\* (Nordic UART) attributes.
C8_HandleIsIndexPlusOne ==
    /\ Len(attributes) = IF provider = Battery THEN 3 ELSE 7
    /\ \A i \in 1 .. Len(attributes) : attributes[i].handle = i

\* After an enumeration of the Battery table that the callback aborted.
C8_Witness ==
    /\ ForAttrsCalled /\ provider = Battery /\ result.kind = "Err"
    /\ Len(calls) = 2 /\ attributes[3].handle = 3

\* C9: a for_attrs_in_range call leaves the table unchanged, whatever it
\* returns.
C9_EnumerationKeepsTable ==
    [][lastCall'.name = "for_attrs_in_range" => attributes' = attributes]_vars

\* An enumeration that visited attributes and was aborted by the callback.
C9_Witness ==
    /\ ForAttrsCalled /\ provider = Nordic /\ result.kind = "Err"
    /\ lastCall.start = 2 /\ Len(calls) = 4
    /\ attributes = NordicUartAttrs_new

\* is_grouping_attr of the constructed provider.
IsGroupingAttr(uuid) ==
    IF provider = Battery THEN BatteryServiceAttrs_is_grouping_attr(uuid)
                          ELSE NordicUartAttrs_is_grouping_attr(uuid)

\* C10: for every stored attribute whose type is_grouping_attr accepts,
\* group_end of its handle returns an attribute of the same table whose
\* handle is at least that handle.
C10_GroupingAttrHasGroupEnd ==
    (GroupEndCalled /\ \E a \in TableAttrs :
          a.handle = lastCall.handle /\ IsGroupingAttr(a.att_type)) =>
        /\ result.kind = "Some"
        /\ result.attr \in TableAttrs
        /\ result.attr.handle >= lastCall.handle

\* group_end of the Nordic UART service declaration (handle 1).
C10_Witness ==
    /\ GroupEndCalled /\ provider = Nordic /\ lastCall.handle = 1
    /\ IsGroupingAttr(attributes[1].att_type)
    /\ result.kind = "Some" /\ result.attr.handle > 1

====
